---- MODULE Spec2Model ----
(***************************************************************************)
(* Model of streamlit_app.py (WP Auto Writer): the HTML sanitizer, the H2   *)
(* limiter, the structural validator, the permalink generator, the          *)
(* generate / edit / publish workflow around them, the outline handler,     *)
(* the endpoint probing of wp_get / wp_post and the policy presets with     *)
(* their cache file.                                                        *)
(*                                                                          *)
(* A Python str is modelled as a sequence of one-character strings.  Every  *)
(* regular expression of the source is modelled by MatchEnd: the end        *)
(* index of the match that starts at a given index (0 when there is none),  *)
(* with the leftmost, non-overlapping scan of re.findall / re.sub /         *)
(* re.finditer / re.split built on top of it.                               *)
(***************************************************************************)
EXTENDS Integers, Sequences, FiniteSets, TLC

VARIABLES
    pc,        \* position of the modelled run
    html,      \* the input fragment / text of a pure-function run
    arg,       \* the integer argument (max_count), or the clock for the slug
    res,       \* result of the first application
    res2,      \* result of the second application (sanitizer only)
    warns,     \* list returned by validate_article (issues in the app)
    \* the Streamlit session: widget values and st.session_state
    keyword,          \* text input "keyword"
    title,            \* text input "title"
    max_h2,           \* number input, maximum number of H2
    structure_html,   \* text area of the outline
    assembled_html,   \* st.session_state["assembled_html"]
    edited_html,      \* st.session_state["edited_html"], the edit text area
    use_edited,       \* st.session_state["use_edited"], the checkbox
    last_post,        \* payload of the latest create-post request, or NoPost
    notice,           \* what the publish handler of this run reported
    \* a call of wp_get / wp_post
    call,             \* the running call: function name, base, route; or NoCall
    wire,             \* the HTTP exchanges of the call, in the order made
    loop_i,           \* index of the candidate the for loop is at
    last,             \* the local variable last
    ret,              \* the value the call returned, or NotReturned
    \* the outline handler
    min_h2,           \* number input, minimum number of H2
    readers,          \* st.session_state["readers"]
    needs,            \* st.session_state["needs"]
    \* the policy presets, per browser session, and the cache file they share
    started,          \* the sessions whose st.session_state has the policy keys
    policy_store,     \* st.session_state.policy_store of each session
    active_policy,    \* st.session_state.active_policy of each session
    policy_text,      \* st.session_state.policy_text of each session
    pol_files,        \* the files held by the uploader widget of each session
    cache             \* the file CACHE_PATH

purevars == <<html, arg, res, res2>>
probevars == <<call, wire, loop_i, last, ret>>
outlinevars == <<min_h2, readers, needs>>
policyvars == <<started, policy_store, active_policy, policy_text, pol_files, cache>>
auxvars == <<probevars, outlinevars, policyvars>>
appvars == <<keyword, title, max_h2, structure_html, assembled_html, edited_html,
             use_edited, last_post, notice, auxvars>>
vars == <<pc, html, arg, res, res2, warns, keyword, title, max_h2, structure_html,
          assembled_html, edited_html, use_edited, last_post, notice, auxvars>>

----------------------------------------------------------------------------
(* Characters *)

LowerSeq == <<"a","b","c","d","e","f","g","h","i","j","k","l","m",
              "n","o","p","q","r","s","t","u","v","w","x","y","z">>
UpperSeq == <<"A","B","C","D","E","F","G","H","I","J","K","L","M",
              "N","O","P","Q","R","S","T","U","V","W","X","Y","Z">>
Lowers == {LowerSeq[i] : i \in 1..Len(LowerSeq)}
Uppers == {UpperSeq[i] : i \in 1..Len(UpperSeq)}
Digits == {"0","1","2","3","4","5","6","7","8","9"}

\* \w of the re module (ASCII part)
IsWord(c) == c \in Lowers \cup Uppers \cup Digits \cup {"_"}

\* \s of the re module, and the characters str.strip() removes (ASCII part)
IsSpace(c) == c \in {" ", "\t", "\n", "\r", "\f"}

\* str.lower() / re.IGNORECASE folding of one character
Lower(c) ==
    IF c \in Uppers
    THEN LowerSeq[CHOOSE i \in 1..Len(UpperSeq) : UpperSeq[i] = c]
    ELSE c

LowerStr(s) == [i \in 1..Len(s) |-> Lower(s[i])]

\* smallest k in from..Len(s) with P(k), 0 when there is none
FirstIdx(s, from, P(_)) ==
    IF \E k \in from..Len(s) : P(k)
    THEN CHOOSE k \in from..Len(s) : P(k) /\ \A j \in from..(k-1) : ~P(j)
    ELSE 0

\* the literal lit (lower case) stands at index i of s, ignoring case
LitAt(s, i, lit) ==
    /\ i >= 1
    /\ i + Len(lit) - 1 <= Len(s)
    /\ \A k \in 1..Len(lit) : Lower(s[i + k - 1]) = lit[k]

\* the literal lit stands at index i of s, case-sensitively
LitAtCS(s, i, lit) ==
    /\ i >= 1
    /\ i + Len(lit) - 1 <= Len(s)
    /\ \A k \in 1..Len(lit) : s[i + k - 1] = lit[k]

\* ''.join(ps)
Flatten(ps) ==
    LET RECURSIVE Go(_)
        Go(k) == IF k > Len(ps) THEN <<>> ELSE ps[k] \o Go(k + 1)
    IN  Go(1)

\* first index >= from where lit stands (ignoring case), 0 when none
FindLit(s, from, lit) ==
    LET P(k) == LitAt(s, k, lit) IN FirstIdx(s, from, P)

----------------------------------------------------------------------------
(* The scan shared by re.findall, re.finditer, re.sub and re.split:         *)
(* M(s, i) is the end index of the match of the pattern that starts at i,   *)
(* 0 when the pattern does not match there.  No pattern of the source       *)
(* matches the empty string.                                                *)

\* the non-overlapping matches, leftmost first, as <<start, end>> pairs
FindAll(s, M(_, _)) ==
    LET P(k) == M(s, k) # 0
        RECURSIVE Go(_)
        Go(pos) ==
            LET i == FirstIdx(s, pos, P)
            IN  IF i = 0 THEN <<>> ELSE <<<<i, M(s, i)>>>> \o Go(M(s, i) + 1)
    IN  Go(1)

\* re.search: does the pattern match anywhere
Search(s, M(_, _)) == \E k \in 1..Len(s) : M(s, k) # 0

\* re.sub(pattern, '', s): s without the matches ms
RemoveMatches(s, ms) ==
    LET RECURSIVE Go(_, _)
        Go(k, pos) ==
            IF k > Len(ms)
            THEN SubSeq(s, pos, Len(s))
            ELSE SubSeq(s, pos, ms[k][1] - 1) \o Go(k + 1, ms[k][2] + 1)
    IN  Go(1, 1)

Sub(s, M(_, _)) == RemoveMatches(s, FindAll(s, M))

----------------------------------------------------------------------------
(* simplify_html *)

ALLOWED_TAGS ==
    { <<"h","2">>, <<"h","3">>, <<"p">>, <<"s","t","r","o","n","g">>,
      <<"e","m">>, <<"u","l">>, <<"o","l">>, <<"l","i">>,
      <<"t","a","b","l","e">>, <<"t","r">>, <<"t","h">>, <<"t","d">> }

\* index of the first character of the tag name of a token that starts at i
NameStart(s, i) == IF i + 1 <= Len(s) /\ s[i + 1] = "/" THEN i + 2 ELSE i + 1

\* r'</?(\w+)[^>]*>'
TagTokenEnd(s, i) ==
    IF i > Len(s) \/ s[i] # "<" THEN 0
    ELSE LET j == NameStart(s, i)
             G(k) == s[k] = ">"
         IN  IF j > Len(s) \/ ~IsWord(s[j]) THEN 0 ELSE FirstIdx(s, j + 1, G)

\* group 1 of r'</?(\w+)[^>]*>' for the token that starts at i: \w+ is greedy
TagTokenName(s, i) ==
    LET j == NameStart(s, i)
        NW(k) == ~IsWord(s[k])
    IN  SubSeq(s, j, FirstIdx(s, j, NW) - 1)

\* set(re.findall(r'</?(\w+)[^>]*>', html))
TagNames(s) ==
    LET ms == FindAll(s, TagTokenEnd)
    IN  {TagTokenName(s, ms[k][1]) : k \in 1..Len(ms)}

\* rf'</?{tag}[^>]*>' with re.IGNORECASE
NamedTagEnd(tag, s, i) ==
    IF i > Len(s) \/ s[i] # "<" THEN 0
    ELSE LET j == NameStart(s, i)
             G(k) == s[k] = ">"
         IN  IF LitAt(s, j, LowerStr(tag)) THEN FirstIdx(s, j + Len(tag), G) ELSE 0

\* re.sub(rf'</?{tag}[^>]*>', '', html, flags=re.IGNORECASE)
RemoveTag(s, tag) ==
    LET M(t, i) == NamedTagEnd(tag, t, i) IN Sub(s, M)

\* r'<br\s*/?>' with re.IGNORECASE
BrEnd(s, i) ==
    IF ~LitAt(s, i, <<"<","b","r">>) THEN 0
    ELSE LET NS(k) == ~IsSpace(s[k])
             k == FirstIdx(s, i + 3, NS)
         IN  IF k = 0 THEN 0
             ELSE IF s[k] = ">" THEN k
             ELSE IF s[k] = "/" /\ k + 1 <= Len(s) /\ s[k + 1] = ">" THEN k + 1
             ELSE 0

RemoveBr(s) == Sub(s, BrEnd)

\* the tags the loop of simplify_html removes
Disallowed(s) == {t \in TagNames(s) : LowerStr(t) \notin ALLOWED_TAGS}

\* the orders in which `for tag in set(tags)` can visit the tags: the
\* iteration order of a set of str depends on the hash seed of the process
Orders(T) ==
    {o \in [1..Cardinality(T) -> T] : \A t \in T : \E i \in 1..Cardinality(T) : o[i] = t}

\* the loop of simplify_html, visiting the tags in order o
RemoveInOrder(s, o) ==
    LET RECURSIVE Go(_, _)
        Go(t, k) == IF k > Len(o) THEN t ELSE Go(RemoveTag(t, o[k]), k + 1)
    IN  Go(s, 1)

\* simplify_html(html): the results the function can return (one per order)
simplify_html(s) == {RemoveBr(RemoveInOrder(s, o)) : o \in Orders(Disallowed(s))}

----------------------------------------------------------------------------
(* count_h2 and trim_h2_max *)

\* r'<tag>.*?</tag>' with re.IGNORECASE | re.DOTALL, open and close being
\* the literals <tag> and </tag>: the lazy .*? stops at the first close
BlockEnd(s, i, open, close) ==
    IF ~LitAt(s, i, open) THEN 0
    ELSE LET k == FindLit(s, i + Len(open), close)
         IN  IF k = 0 THEN 0 ELSE k + Len(close) - 1

\* H2_RE = re.compile(r'(<h2>.*?</h2>)', re.IGNORECASE | re.DOTALL)
H2_RE(s, i) == BlockEnd(s, i, <<"<","h","2",">">>, <<"<","/","h","2",">">>)

\* len(H2_RE.findall(html or ""))
count_h2(s) == Len(FindAll(s, H2_RE))

\* H2_RE.split(s): the pattern is one capturing group, so the list is
\* text, heading, text, heading, ..., text
SplitH2(s) ==
    LET ms == FindAll(s, H2_RE)
        RECURSIVE Go(_, _)
        Go(k, pos) ==
            IF k > Len(ms)
            THEN <<SubSeq(s, pos, Len(s))>>
            ELSE <<SubSeq(s, pos, ms[k][1] - 1), SubSeq(s, ms[k][1], ms[k][2])>>
                     \o Go(k + 1, ms[k][2] + 1)
    IN  Go(1, 1)

\* trim_h2_max with `h2_seen < max_count` for `h2_seen <= max_count`
TrimLoop_OffByOne(parts, max_count) ==
    LET RECURSIVE Go(_, _, _)
        Go(i, h2_seen, out) ==
            IF i > Len(parts) THEN out
            ELSE IF H2_RE(parts[i], 1) # 0
            THEN LET seen == h2_seen + 1
                     follow == IF i + 1 <= Len(parts) THEN parts[i + 1] ELSE <<>>
                 IN  Go(i + 2, seen,
                        IF seen < max_count THEN out \o parts[i] \o follow ELSE out)
            ELSE Go(i + 1, h2_seen, IF h2_seen = 0 THEN out \o parts[i] ELSE out)
    IN  Go(1, 0, <<>>)

\* trim_h2_max without the `if h2_seen == 0: out.append(chunk)` branch
TrimLoop_DropLead(parts, max_count) ==
    LET RECURSIVE Go(_, _, _)
        Go(i, h2_seen, out) ==
            IF i > Len(parts) THEN out
            ELSE IF H2_RE(parts[i], 1) # 0
            THEN LET seen == h2_seen + 1
                     follow == IF i + 1 <= Len(parts) THEN parts[i + 1] ELSE <<>>
                 IN  Go(i + 2, seen,
                        IF seen <= max_count THEN out \o parts[i] \o follow ELSE out)
            ELSE Go(i + 1, h2_seen, out)
    IN  Go(1, 0, <<>>)

\* the while loop of trim_h2_max over parts (index i is 1-based here);
\* out is kept joined
TrimLoop(parts, max_count) ==
    LET RECURSIVE Go(_, _, _)
        Go(i, h2_seen, out) ==
            IF i > Len(parts) THEN out
            ELSE IF H2_RE(parts[i], 1) # 0
            THEN LET seen == h2_seen + 1
                     follow == IF i + 1 <= Len(parts) THEN parts[i + 1] ELSE <<>>
                 IN  Go(i + 2, seen,
                        IF seen <= max_count THEN out \o parts[i] \o follow ELSE out)
            ELSE Go(i + 1, h2_seen, IF h2_seen = 0 THEN out \o parts[i] ELSE out)
    IN  Go(1, 0, <<>>)

trim_h2_max(s, max_count) == TrimLoop(SplitH2(s), max_count)

----------------------------------------------------------------------------
(* generate_permalink.  A character outside ASCII is written Uxxxx, its     *)
(* code point: U5148 U6255 U3044 U8CB7 U53D6 is the first key of subs.      *)

\* re.sub(pattern, new, s): s with every match of ms replaced by new
ReplaceMatches(s, ms, new) ==
    LET RECURSIVE Go(_, _)
        Go(k, pos) ==
            IF k > Len(ms)
            THEN SubSeq(s, pos, Len(s))
            ELSE SubSeq(s, pos, ms[k][1] - 1) \o new \o Go(k + 1, ms[k][2] + 1)
    IN  Go(1, 1)

\* s.replace(old, new)
Replace(s, old, new) ==
    LET M(t, i) == IF LitAtCS(t, i, old) THEN i + Len(old) - 1 ELSE 0
    IN  ReplaceMatches(s, FindAll(s, M), new)

\* the dict subs, in insertion order
subs ==
    <<
      <<<<"U5148","U6255","U3044","U8CB7","U53D6">>,
        <<"s","a","k","i","b","a","r","a","i","-","k","a","i","t","o","r","i">>>>,
      <<<<"U5148","U6255","U3044">>,
        <<"s","a","k","i","b","a","r","a","i">>>>,
      <<<<"U8CB7","U53D6">>,
        <<"k","a","i","t","o","r","i">>>>,
      <<<<"U53E3","U30B3","U30DF">>,
        <<"k","u","c","h","i","k","o","m","i">>>>,
      <<<<"U8A55","U5224">>,
        <<"h","y","o","b","a","n">>>>,
      <<<<"U4F53","U9A13","U8AC7">>,
        <<"t","a","i","k","e","n">>>>,
      <<<<"U30EC","U30D3","U30E5","U30FC">>,
        <<"r","e","v","i","e","w">>>>,
      <<<<"U6BD4","U8F03">>,
        <<"h","i","k","a","k","u">>>>,
      <<<<"U67FB","U5B9A">>,
        <<"s","a","t","e","i">>>>,
      <<<<"U304A","U3059","U3059","U3081">>,
        <<"o","s","u","s","u","m","e">>>>,
      <<<<"U30E9","U30F3","U30AD","U30F3","U30B0">>,
        <<"r","a","n","k","i","n","g">>>>,
      <<<<"U8A55","U4FA1">>,
        <<"h","y","o","k","a">>>>,
      <<<<"U7533","U8FBC">>,
        <<"m","o","u","s","h","i","k","o","m","i">>>>,
      <<<<"U65B9","U6CD5">>,
        <<"h","o","u","h","o","u">>>>,
      <<<<"U6D41","U308C">>,
        <<"n","a","g","a","r","e">>>>,
      <<<<"U624B","U9806">>,
        <<"t","e","j","u","n">>>>
    >>

\* for jp, en in subs.items(): s = s.replace(jp, en)
ApplySubs(s) ==
    LET RECURSIVE Go(_, _)
        Go(t, k) ==
            IF k > Len(subs) \/ t = <<>> THEN t
            ELSE Go(Replace(t, subs[k][1], subs[k][2]), k + 1)
    IN  Go(s, 1)

\* str.lower() of one character: ASCII, U00C9 (E acute), UFF21 (fullwidth A)
PyLower(c) ==
    IF c = "U00C9" THEN "U00E9"
    ELSE IF c = "UFF21" THEN "UFF41"
    ELSE Lower(c)

\* unicodedata.normalize('NFKD', c) of one character: the characters of the
\* model that decompose; every other one is its own normal form
NFKDChar(c) ==
    CASE c = "U00E9" -> <<"e", "U0301">>
      [] c = "U00C9" -> <<"E", "U0301">>
      [] c = "UFF21" -> <<"A">>
      [] c = "UFF41" -> <<"a">>
      [] c = "UFF11" -> <<"1">>
      [] c = "U2103" -> <<"U00B0", "C">>
      [] c = "U30B0" -> <<"U30AF", "U3099">>
      [] c = "U30D3" -> <<"U30D2", "U3099">>
      [] OTHER -> <<c>>

NFKD(s) == Flatten([i \in 1..Len(s) |-> NFKDChar(s[i])])

IsSlugChar(c) == c \in Lowers \cup Digits

\* r'[^a-z0-9]+'
NonSlugRun(s, i) ==
    IF i > Len(s) \/ IsSlugChar(s[i]) THEN 0
    ELSE LET P(k) == IsSlugChar(s[k])
             k == FirstIdx(s, i, P)
         IN  IF k = 0 THEN Len(s) ELSE k - 1

\* r'-{2,}'
HyphenRun(s, i) ==
    IF i + 1 > Len(s) \/ s[i] # "-" \/ s[i + 1] # "-" THEN 0
    ELSE LET P(k) == s[k] # "-"
             k == FirstIdx(s, i, P)
         IN  IF k = 0 THEN Len(s) ELSE k - 1

\* s.strip('-')
StripHyphens(s) ==
    LET P(k) == s[k] # "-"
        a == FirstIdx(s, 1, P)
    IN  IF a = 0 THEN <<>>
        ELSE SubSeq(s, a, CHOOSE b \in a..Len(s) :
                              s[b] # "-" /\ \A j \in (b + 1)..Len(s) : s[j] = "-")

\* s.split('-')
SplitHyphen(s) ==
    LET RECURSIVE Go(_)
        Go(pos) ==
            LET P(k) == s[k] = "-"
                k == FirstIdx(s, pos, P)
            IN  IF k = 0 THEN <<SubSeq(s, pos, Len(s))>>
                ELSE <<SubSeq(s, pos, k - 1)>> \o Go(k + 1)
    IN  Go(1)

\* '-'.join(parts)
JoinHyphen(parts) ==
    LET RECURSIVE Go(_)
        Go(k) ==
            IF k > Len(parts) THEN <<>>
            ELSE IF k = 1 THEN parts[1] \o Go(2)
            ELSE <<"-">> \o parts[k] \o Go(k + 1)
    IN  Go(1)

\* parts[:n]
Take(parts, n) == SubSeq(parts, 1, IF Len(parts) < n THEN Len(parts) ELSE n)

SLUG_MAX_LEN == 50
SLUG_KEEP_PARTS == 5

\* SlugCore without .strip('-')
SlugCore_NoStrip(text) ==
    LET s1 == [i \in 1..Len(text) |-> PyLower(text[i])]
        s2 == ApplySubs(s1)
        s3 == NFKD(s2)
        s4 == ReplaceMatches(s3, FindAll(s3, NonSlugRun), <<"-">>)
    IN  ReplaceMatches(s4, FindAll(s4, HyphenRun), <<"-">>)

\* generate_permalink up to the length test: lower, subs, NFKD, the two
\* re.sub calls and strip('-')
SlugCore(text) ==
    LET s1 == [i \in 1..Len(text) |-> PyLower(text[i])]
        s2 == ApplySubs(s1)
        s3 == NFKD(s2)
        s4 == StripHyphens(ReplaceMatches(s3, FindAll(s3, NonSlugRun), <<"-">>))
    IN  ReplaceMatches(s4, FindAll(s4, HyphenRun), <<"-">>)

\* if len(s) > 50: s = '-'.join(s.split('-')[:5])
SlugCut(s) ==
    IF Len(s) > SLUG_MAX_LEN THEN JoinHyphen(Take(SplitHyphen(s), SLUG_KEEP_PARTS)) ELSE s

\* str(n) for n >= 0
IntToStr(n) ==
    LET D == <<"0","1","2","3","4","5","6","7","8","9">>
        RECURSIVE Go(_)
        Go(m) == IF m < 10 THEN <<D[m + 1]>> ELSE Go(m \div 10) \o <<D[(m % 10) + 1]>>
    IN  Go(n)

\* generate_permalink(keyword_or_title) when int(datetime.now().timestamp())
\* is now
generate_permalink(keyword_or_title, now) ==
    LET s == SlugCut(SlugCore(keyword_or_title))
    IN  IF s # <<>> THEN s ELSE <<"p","o","s","t","-">> \o IntToStr(now)

----------------------------------------------------------------------------
(* validate_article.  A warning is modelled by the name of its rule.        *)

W_FORBIDDEN == "forbidden_tag"
W_BR == "br"
W_LIST == "section_without_list_or_table"
W_H3 == "h3_paragraph_count"
W_SENTENCE == "sentence_too_long"
W_TOTAL == "article_too_long"

P_COUNT_MIN == 3
P_COUNT_MAX == 6
SENTENCE_MAX == 55
ARTICLE_MAX == 6000

\* r'<h4|<script|<style' with re.IGNORECASE
ForbiddenAt(s, i) ==
    IF LitAt(s, i, <<"<","h","4">>) THEN i + 2
    ELSE IF LitAt(s, i, <<"<","s","c","r","i","p","t">>) THEN i + 6
    ELSE IF LitAt(s, i, <<"<","s","t","y","l","e">>) THEN i + 5
    ELSE 0

\* \b after index e of s: a word character at e and none at e + 1
BoundaryAfter(s, e) == IsWord(s[e]) /\ (e + 1 > Len(s) \/ ~IsWord(s[e + 1]))

\* r'<(ul|ol|table)\b' with re.IGNORECASE
ListAt(s, i) ==
    LET E == IF LitAt(s, i, <<"<","u","l">>) \/ LitAt(s, i, <<"<","o","l">>) THEN i + 2
             ELSE IF LitAt(s, i, <<"<","t","a","b","l","e">>) THEN i + 5
             ELSE 0
    IN  IF E # 0 /\ BoundaryAfter(s, E) THEN E ELSE 0

\* r'(<h3>.*?</h3>)' with re.DOTALL | re.IGNORECASE
H3_RE(s, i) == BlockEnd(s, i, <<"<","h","3",">">>, <<"<","/","h","3",">">>)

\* r'<p>.*?</p>' and r'<p>(.*?)</p>' with re.DOTALL | re.IGNORECASE
P_RE(s, i) == BlockEnd(s, i, <<"<","p",">">>, <<"<","/","p",">">>)

\* r'(<h2>|<h3>)' with re.IGNORECASE
HeadAt(s, i) ==
    IF LitAt(s, i, <<"<","h","2",">">>) \/ LitAt(s, i, <<"<","h","3",">">>)
    THEN i + 3 ELSE 0

\* r'<.*?>' without re.DOTALL: the dot does not match a newline
MarkupAt(s, i) ==
    IF i > Len(s) \/ s[i] # "<" THEN 0
    ELSE LET G(k) == s[k] = ">"
             e == FirstIdx(s, i + 1, G)
         IN  IF e # 0 /\ \A j \in (i + 1)..(e - 1) : s[j] # "\n" THEN e ELSE 0

\* re.sub(r'<.*?>', '', s)
StripMarkup(s) == Sub(s, MarkupAt)

\* s.strip()
Strip(s) ==
    LET NS(k) == ~IsSpace(s[k])
        a == FirstIdx(s, 1, NS)
    IN  IF a = 0 THEN <<>>
        ELSE SubSeq(s, a, CHOOSE b \in a..Len(s) :
                              ~IsSpace(s[b]) /\ \A j \in (b + 1)..Len(s) : IsSpace(s[j]))

\* lines 97-98
ForbiddenWarns(s) == IF Search(s, ForbiddenAt) THEN <<W_FORBIDDEN>> ELSE <<>>

\* lines 99-100
BrWarns(s) == IF Search(s, BrEnd) THEN <<W_BR>> ELSE <<>>

\* lines 102-108: one warning per section that has no list and no table
SectionWarns_Once(s) ==
    LET h2_iter == FindAll(s, H2_RE)
        Section(i) ==
            SubSeq(s, h2_iter[i][2] + 1,
                   IF i + 1 <= Len(h2_iter) THEN h2_iter[i + 1][1] - 1 ELSE Len(s))
    IN  IF \E i \in 1..Len(h2_iter) : ~Search(Section(i), ListAt)
        THEN <<W_LIST>> ELSE <<>>

SectionWarns(s) ==
    LET h2_iter == FindAll(s, H2_RE)
        Section(i) ==
            SubSeq(s, h2_iter[i][2] + 1,
                   IF i + 1 <= Len(h2_iter) THEN h2_iter[i + 1][1] - 1 ELSE Len(s))
        RECURSIVE Go(_)
        Go(i) ==
            IF i > Len(h2_iter) THEN <<>>
            ELSE (IF ~Search(Section(i), ListAt) THEN <<W_LIST>> ELSE <<>>) \o Go(i + 1)
    IN  Go(1)

\* lines 110-118: one warning per <h3> block with fewer than 3 or more
\* than 6 paragraphs
H3Warns(s) ==
    LET h3_positions == FindAll(s, H3_RE)
        Block(i) ==
            LET start == h3_positions[i][2] + 1
                P(k) == HeadAt(s, k) # 0
                next_head == FirstIdx(s, start, P)
            IN  SubSeq(s, start, IF next_head # 0 THEN next_head - 1 ELSE Len(s))
        p_count(i) == Len(FindAll(Block(i), P_RE))
        RECURSIVE Go(_)
        Go(i) ==
            IF i > Len(h3_positions) THEN <<>>
            ELSE (IF p_count(i) < P_COUNT_MIN \/ p_count(i) > P_COUNT_MAX
                  THEN <<W_H3>> ELSE <<>>) \o Go(i + 1)
    IN  Go(1)

\* group 1 of the k-th match ps[k] of r'<p>(.*?)</p>' in s
ParagraphBody(s, m) == SubSeq(s, m[1] + 3, m[2] - 4)

\* lines 120-124 without the break
SentenceWarns_NoBreak(s) ==
    LET ps == FindAll(s, P_RE)
        RECURSIVE Go(_)
        Go(k) ==
            IF k > Len(ps) THEN <<>>
            ELSE (IF Len(Strip(StripMarkup(ParagraphBody(s, ps[k])))) > SENTENCE_MAX
                  THEN <<W_SENTENCE>> ELSE <<>>) \o Go(k + 1)
    IN  Go(1)

\* lines 120-124: the loop stops at the first paragraph that is too long
SentenceWarns(s) ==
    LET ps == FindAll(s, P_RE)
        RECURSIVE Go(_)
        Go(k) ==
            IF k > Len(ps) THEN <<>>
            ELSE IF Len(Strip(StripMarkup(ParagraphBody(s, ps[k])))) > SENTENCE_MAX
            THEN <<W_SENTENCE>>
            ELSE Go(k + 1)
    IN  Go(1)

\* lines 126-128
TotalWarns(s) ==
    IF Len(Strip(StripMarkup(s))) > ARTICLE_MAX THEN <<W_TOTAL>> ELSE <<>>

\* validate_article with the total-length rule evaluated first
validate_article_TotalFirst(s) ==
    TotalWarns(s) \o ForbiddenWarns(s) \o BrWarns(s) \o SectionWarns(s) \o H3Warns(s)
        \o SentenceWarns(s)

\* validate_article(html): warns after the last rule
validate_article(s) ==
    ForbiddenWarns(s) \o BrWarns(s) \o SectionWarns(s) \o H3Warns(s)
        \o SentenceWarns(s) \o TotalWarns(s)

----------------------------------------------------------------------------
(* The session of the Streamlit script *)

MAX_H2 == 8
MAX_H2_LOW == 3
MAX_H2_HIGH == 12

NoPost == [sent |-> FALSE]

\* what the publish handler reports: its three st.error stops (lines 687,
\* 690, 696), the request of line 721, or nothing when the run was caused by
\* another widget
N_NONE == "none"
N_KEYWORD == "keyword required"
N_TITLE == "title required"
N_BODY == "body missing"
N_REQUEST == "request sent"

\* the result of the modelled pure-function run, before any run
PureFresh ==
    /\ html = <<>>
    /\ arg = 0
    /\ res = <<>>
    /\ res2 = <<>>
    /\ warns = <<>>

NoCall == [fn |-> "none"]
None == [none |-> TRUE]
NotReturned == [returned |-> FALSE]

\* no call of wp_get / wp_post is running
ProbeFresh ==
    /\ call = NoCall
    /\ wire = <<>>
    /\ loop_i = 1
    /\ last = None
    /\ ret = NotReturned

MIN_H2 == 3
MIN_H2_LOW == 1
MIN_H2_HIGH == 12

\* the minimum at the default of its number input, nothing generated
OutlineFresh ==
    /\ min_h2 = MIN_H2
    /\ readers = <<>>
    /\ needs = <<>>

DEFAULT_PRESET_NAME == "default"
DEFAULT_POLICY_TXT == "[default policy]"

\* the browser sessions that run the script against one cache file
Sessions == {"A", "B"}

\* a dict without keys
EmptyDict == [k \in {} |-> ""]

\* CACHE_PATH does not exist
NoFile == [kind |-> "absent"]

\* no session has run the script yet and there is no cache file
PolicyFresh ==
    /\ started = {}
    /\ policy_store = [s \in Sessions |-> EmptyDict]
    /\ active_policy = [s \in Sessions |-> ""]
    /\ policy_text = [s \in Sessions |-> ""]
    /\ pol_files = [s \in Sessions |-> <<>>]
    /\ cache = NoFile

AuxFresh ==
    /\ ProbeFresh
    /\ OutlineFresh
    /\ PolicyFresh

\* the session after the first run of the script: empty inputs, the number
\* input at its default, nothing generated, the checkbox ticked
AppFresh ==
    /\ AuxFresh
    /\ keyword = <<>>
    /\ title = <<>>
    /\ max_h2 = MAX_H2
    /\ structure_html = <<>>
    /\ assembled_html = <<>>
    /\ edited_html = <<>>
    /\ use_edited = TRUE
    /\ last_post = NoPost
    /\ notice = N_NONE

\* lines 603-609 run on every rerun: issues = validate_article(assembled)
Issues(assembled) == IF assembled # <<>> THEN validate_article(assembled) ELSE <<>>

----------------------------------------------------------------------------
(* Bounded inputs *)

\* all sequences over S of length at most n
SeqsUpTo(S, n) == UNION {[1..k -> S] : k \in 0..n}

\* every string over the characters of the sanitizer's token shapes ...
MaxSanLen == 4
SanChars == {"<", ">", "/", "t", "d", "b", "r", " "}

\* ... and fragments put together from tag tokens, broken tokens and text
MaxSanPieces == 3
SanPieces ==
    { <<"<">>, <<"b",">">>, <<"x">>,
      <<"<","t",">">>, <<"<","t","d",">">>, <<"<","/","t","d",">">>,
      <<"<","T","D",">">>, <<"<","b","r",">">>, <<"<","b","r"," ","/",">">>,
      <<"<","s",">">>, <<"<","s","t","r","o","n","g",">">>,
      <<"<","/","s","t","r","o","n","g",">">>, <<"<","d","i","v",">">> }

SanInputs ==
    SeqsUpTo(SanChars, MaxSanLen)
        \cup {Flatten(ps) : ps \in SeqsUpTo(SanPieces, MaxSanPieces)}

----------------------------------------------------------------------------
(* SpecSanitize: simplify_html applied to a fragment, then to its result *)

InitSanitize ==
    /\ AppFresh
    /\ pc = "san0"
    /\ html \in SanInputs
    /\ arg = 0
    /\ res = <<>>
    /\ res2 = <<>>
    /\ warns = <<>>

\* html = simplify_html(html)
Sanitize ==
    /\ pc = "san0"
    /\ \E r \in simplify_html(html) : res' = r
    /\ pc' = "san1"
    /\ UNCHANGED <<html, arg, res2, warns>>
    /\ UNCHANGED appvars

\* a second pass over the result of the first
SanitizeAgain ==
    /\ pc = "san1"
    /\ \E r \in simplify_html(res) : res2' = r
    /\ pc' = "san2"
    /\ UNCHANGED <<html, arg, res, warns>>
    /\ UNCHANGED appvars

NextSanitize == Sanitize \/ SanitizeAgain

SpecSanitize == InitSanitize /\ [][NextSanitize]_vars

\* the names of the tag tokens of s, lower-cased
TokenNames(s) == {LowerStr(t) : t \in TagNames(s)}

\* C1: every tag token left in simplify_html(f) has an allow-listed name and
\* no <br> element is left
C1_OnlyAllowedTagsRemain ==
    pc \in {"san1", "san2"} =>
        /\ TokenNames(res) \subseteq ALLOWED_TAGS
        /\ ~Search(res, BrEnd)

\* C2: simplify_html(simplify_html(f)) = simplify_html(f)
C2_Idempotent == pc = "san2" => res2 = res

\* f without the tag tokens whose name is outside the allow-list
WithoutDisallowedTokens(s) ==
    LET ms == FindAll(s, TagTokenEnd)
        Bad(k) == LowerStr(TagTokenName(s, ms[k][1])) \notin ALLOWED_TAGS
        RECURSIVE Go(_, _)
        Go(k, pos) ==
            IF k > Len(ms) THEN SubSeq(s, pos, Len(s))
            ELSE IF Bad(k) THEN SubSeq(s, pos, ms[k][1] - 1) \o Go(k + 1, ms[k][2] + 1)
            ELSE SubSeq(s, pos, ms[k][2]) \o Go(k + 1, ms[k][2] + 1)
    IN  Go(1, 1)

\* C3: simplify_html(f) is f with exactly the tag tokens of disallowed name
\* (every <br> token among them) deleted, everything else kept in place
C3_RemovesExactlyDisallowed ==
    pc \in {"san1", "san2"} => res = WithoutDisallowedTokens(html)

----------------------------------------------------------------------------
(* SpecTrim: trim_h2_max applied to a fragment and a maximum *)

MaxTrimPieces == 5
MaxCount == 3
TrimPieces ==
    { <<"<","h","2",">">>, <<"<","/","h","2",">">>, <<"<","H","2",">">>,
      <<"<","h","2",">","t","<","/","h","2",">">>,
      <<"x">>, <<"<","/","h","2">> }

TrimInputs == {Flatten(ps) : ps \in SeqsUpTo(TrimPieces, MaxTrimPieces)}

InitTrim ==
    /\ AppFresh
    /\ pc = "trim0"
    /\ html \in TrimInputs
    /\ arg \in 0..MaxCount
    /\ res = <<>>
    /\ res2 = <<>>
    /\ warns = <<>>

Trim ==
    /\ pc = "trim0"
    /\ res' = trim_h2_max(html, arg)
    /\ pc' = "trim1"
    /\ UNCHANGED <<html, arg, res2, warns>>
    /\ UNCHANGED appvars

NextTrim == Trim

SpecTrim == InitTrim /\ [][NextTrim]_vars

Min(a, b) == IF a <= b THEN a ELSE b

\* C4: count_h2(trim_h2_max(f, n)) = min(n, count_h2(f))
C4_TrimCount ==
    pc = "trim1" => count_h2(res) = Min(arg, count_h2(html))

C4_Witness ==
    /\ pc = "trim1"
    /\ count_h2(html) > arg
    /\ arg > 0
    /\ H2_RE(html, 1) = 0
    /\ Len(res) < Len(html)

\* C5: trim_h2_max(f, n) is f when f has at most n headings, and otherwise f
\* cut just before the opening of heading n + 1
C5_TrimIsPrefix ==
    pc = "trim1" =>
        LET ms == FindAll(html, H2_RE)
        IN  IF Len(ms) <= arg
            THEN res = html
            ELSE res = SubSeq(html, 1, ms[arg + 1][1] - 1)

C5_Witness ==
    /\ pc = "trim1"
    /\ count_h2(html) > arg + 1
    /\ arg > 0
    /\ res # <<>>
    /\ res # html

----------------------------------------------------------------------------
(* SpecSlug: generate_permalink applied to a title or keyword *)

MaxSlugLen == 3
SlugChars ==
    {"a", "Z", "7", "-", " ", "_", "U00C9", "UFF21", "U2103", "U8CB7", "U53D6"}

MaxSlugPieces == 5
SlugPieces ==
    { subs[1][1], subs[4][1], <<" ">>, <<"-">>, <<"a","B","1">>, <<"U30D3">> }

SlugInputs ==
    SeqsUpTo(SlugChars, MaxSlugLen)
        \cup {Flatten(ps) : ps \in SeqsUpTo(SlugPieces, MaxSlugPieces)}

\* values of int(datetime.now().timestamp())
MaxNow == 11

\* `s or f"post-{...}"` reads the clock only when s is empty
ClockReads(text) == IF SlugCut(SlugCore(text)) = <<>> THEN 0..MaxNow ELSE {0}

InitSlug ==
    /\ AppFresh
    /\ pc = "slug0"
    /\ html \in SlugInputs
    /\ arg = 0
    /\ res = <<>>
    /\ res2 = <<>>
    /\ warns = <<>>

Permalink ==
    /\ pc = "slug0"
    /\ \E now \in ClockReads(html) :
          /\ arg' = now
          /\ res' = generate_permalink(html, now)
    /\ pc' = "slug1"
    /\ UNCHANGED <<html, res2, warns>>
    /\ UNCHANGED appvars

NextSlug == Permalink

SpecSlug == InitSlug /\ [][NextSlug]_vars

\* ^[a-z0-9]+(-[a-z0-9]+)*$
IsSlugForm(s) ==
    /\ s # <<>>
    /\ \A i \in 1..Len(s) : IsSlugChar(s[i]) \/ s[i] = "-"
    /\ s[1] # "-"
    /\ s[Len(s)] # "-"
    /\ \A i \in 1..(Len(s) - 1) : ~(s[i] = "-" /\ s[i + 1] = "-")

\* post-<digits>
IsFallbackForm(s) ==
    /\ Len(s) > 5
    /\ SubSeq(s, 1, 5) = <<"p","o","s","t","-">>
    /\ \A i \in 6..Len(s) : s[i] \in Digits

\* C6: generate_permalink(t) is never empty and is of the form
\* ^[a-z0-9]+(-[a-z0-9]+)*$ or post-<digits>, also after the 5-segment cut
C6_SlugWellFormed ==
    pc = "slug1" => res # <<>> /\ (IsSlugForm(res) \/ IsFallbackForm(res))

\* a result longer than 50 characters was cut to its first 5 segments
C6_Witness ==
    /\ pc = "slug1"
    /\ Len(SlugCore(html)) > SLUG_MAX_LEN
    /\ Len(SplitHyphen(SlugCore(html))) > SLUG_KEEP_PARTS
    /\ Len(SplitHyphen(res)) = SLUG_KEEP_PARTS

----------------------------------------------------------------------------
(* SpecValidate: validate_article applied to a fragment *)

\* the character c, n times
Rep(c, n) == [i \in 1..n |-> c]

\* a paragraph whose visible text is n characters inside <em> markup
EmParagraph(n) ==
    <<"<","p",">","<","e","m",">">> \o Rep("a", n)
        \o <<"<","/","e","m",">","<","/","p",">">>

\* a paragraph of n characters followed by a blank before </p>
PaddedParagraph(n) ==
    <<"<","P",">">> \o Rep("b", n) \o <<" ","<","/","p",">">>

MaxValPieces == 4
ValPieces ==
    { <<"<","h","2",">","t","<","/","h","2",">">>,
      <<"<","h","3",">","s","<","/","H","3",">">>,
      <<"<","u","l",">">>,
      <<"<","o","l","x",">">>,
      <<"<","p",">","x","<","/","p",">">>,
      <<"<","h","4",">","<","b","r","/",">">>,
      PaddedParagraph(SENTENCE_MAX),
      EmParagraph(SENTENCE_MAX + 1) }

\* documents around the total-length ceiling: a head of pieces and a tail
\* of plain text
LongHeads ==
    { <<"<","h","4",">","<","b","r","/",">">>,
      <<"<","h","2",">","t","<","/","h","2",">","<","h","3",">","s","<","/","h","3",">">>
          \o EmParagraph(SENTENCE_MAX + 1),
      <<"<","u","l",">">>,
      <<" ">>,
      <<"\n">> }

LongInputs ==
    { Flatten(ps) \o Rep("c", n) :
        ps \in SeqsUpTo(LongHeads, MaxValPieces - 2),
        n \in {ARTICLE_MAX - (SENTENCE_MAX + 3), ARTICLE_MAX, ARTICLE_MAX + 1} }

ValInputs ==
    {Flatten(ps) : ps \in SeqsUpTo(ValPieces, MaxValPieces)} \cup LongInputs

InitValidate ==
    /\ AppFresh
    /\ pc = "val0"
    /\ html \in ValInputs
    /\ arg = 0
    /\ res = <<>>
    /\ res2 = <<>>
    /\ warns = <<>>

\* issues = validate_article(assembled): the fragment itself is only read
Validate ==
    /\ pc = "val0"
    /\ warns' = validate_article(html)
    /\ res' = html
    /\ pc' = "val1"
    /\ UNCHANGED <<html, arg, res2>>
    /\ UNCHANGED appvars

NextValidate == Validate

SpecValidate == InitValidate /\ [][NextValidate]_vars

\* number of entries of ws equal to w
Count(ws, w) == Cardinality({k \in 1..Len(ws) : ws[k] = w})

\* the first index of s after the k-th heading of hs, and the last index of
\* s before the next heading (or the end of s)
SectionFirst(hs, k) == hs[k][2] + 1
SectionLast(s, hs, k) == IF k < Len(hs) THEN hs[k + 1][1] - 1 ELSE Len(s)

\* an opening <ul, <ol or <table token, not continued by a word character,
\* lies within indices a..b of s
HasListIn(s, a, b) ==
    \E i \in a..b :
        \E name \in {<<"u","l">>, <<"o","l">>, <<"t","a","b","l","e">>} :
            /\ s[i] = "<"
            /\ i + Len(name) <= b
            /\ LowerStr(SubSeq(s, i + 1, i + Len(name))) = name
            /\ (i + Len(name) = b \/ ~IsWord(s[i + Len(name) + 1]))

\* the h2 sections of s that contain no list and no table
OffendingSections(s) ==
    LET hs == FindAll(s, H2_RE)
    IN  {k \in 1..Len(hs) : ~HasListIn(s, SectionFirst(hs, k), SectionLast(s, hs, k))}

\* C7: the number of missing list/table warnings is the number of h2
\* sections without <ul>, <ol> or <table>; none when there is no h2 heading
C7_OneWarningPerSection ==
    pc = "val1" => Count(warns, W_LIST) = Cardinality(OffendingSections(html))

C7_Witness ==
    /\ pc = "val1"
    /\ count_h2(html) >= 3
    /\ Count(warns, W_LIST) = 2

\* the paragraphs of s whose visible text is longer than 55 characters
LongParagraphs(s) ==
    LET ps == FindAll(s, P_RE)
    IN  {k \in 1..Len(ps) :
            Len(Strip(StripMarkup(ParagraphBody(s, ps[k])))) >= SENTENCE_MAX + 1}

\* C8: the sentence-length warning is emitted once if some <p> paragraph has
\* more than 55 visible characters, and not at all otherwise
C8_SentenceWarningOnce ==
    pc = "val1" =>
        Count(warns, W_SENTENCE) = (IF LongParagraphs(html) # {} THEN 1 ELSE 0)

C8_Witness ==
    /\ pc = "val1"
    /\ Cardinality(LongParagraphs(html)) >= 2
    /\ Count(warns, W_SENTENCE) = 1

\* position of a rule in the order of evaluation
RuleRank(w) ==
    CASE w = W_FORBIDDEN -> 1
      [] w = W_BR -> 2
      [] w = W_LIST -> 3
      [] w = W_H3 -> 4
      [] w = W_SENTENCE -> 5
      [] w = W_TOTAL -> 6

\* C9: the warnings are in rule evaluation order, with at most one
\* forbidden-tag, line-break, sentence-length and total-length warning
C9_WarningOrder ==
    pc = "val1" =>
        /\ \A i \in 1..Len(warns) : \A j \in (i + 1)..Len(warns) :
               RuleRank(warns[i]) <= RuleRank(warns[j])
        /\ \A w \in {W_FORBIDDEN, W_BR, W_SENTENCE, W_TOTAL} : Count(warns, w) <= 1

C9_Witness ==
    /\ pc = "val1"
    /\ {warns[k] : k \in 1..Len(warns)}
           = {W_FORBIDDEN, W_BR, W_LIST, W_H3, W_SENTENCE, W_TOTAL}

----------------------------------------------------------------------------
(* Spec: the generate / edit / publish workflow.  One action is one rerun   *)
(* of the script caused by one widget.  Every rerun passes the preview      *)
(* block, which recomputes issues from assembled_html: warns changes only   *)
(* in the action that changes assembled_html.                               *)

H2Block == <<"<","h","2",">","t","<","/","h","2",">">>

\* texts the generation API returns and the operator types
AppFragments ==
    { <<>>,
      <<" ">>,
      <<" ","<","p",">","x","<","/","p",">"," ">>,
      <<"<","d","i","v",">","x","<","b","r",">">>,
      <<"<","<","s",">","b",">">>,
      H2Block \o <<"<","u","l",">">> \o H2Block,
      Flatten([i \in 1..(MAX_H2 + 1) |-> H2Block]) }

AppTexts == {<<>>, <<" ">>, <<"K">>}

\* values the operator gives the number input: its bounds and its default
MaxH2Choices == {MAX_H2_LOW, MAX_H2, MAX_H2_HIGH}

Init ==
    /\ pc = "app"
    /\ html = <<>>
    /\ arg = 0
    /\ res = <<>>
    /\ res2 = <<>>
    /\ warns = <<>>
    /\ AppFresh

\* the operator types the keyword
SetKeyword ==
    /\ pc = "app"
    /\ \E k \in AppTexts : keyword' = k
    /\ notice' = N_NONE
    /\ UNCHANGED <<pc, purevars, auxvars, warns, title, max_h2, structure_html, assembled_html,
                   edited_html, use_edited, last_post>>

\* the operator types the title
SetTitle ==
    /\ pc = "app"
    /\ \E t \in AppTexts : title' = t
    /\ notice' = N_NONE
    /\ UNCHANGED <<pc, purevars, auxvars, warns, keyword, max_h2, structure_html, assembled_html,
                   edited_html, use_edited, last_post>>

\* max_h2 = st.number_input(..., min_value=3, max_value=12, value=MAX_H2)
SetMaxH2 ==
    /\ pc = "app"
    /\ \E n \in MaxH2Choices : max_h2' = n
    /\ notice' = N_NONE
    /\ UNCHANGED <<pc, purevars, auxvars, warns, keyword, title, structure_html, assembled_html,
                   edited_html, use_edited, last_post>>

\* the operator types into the outline text area
EditStructure ==
    /\ pc = "app"
    /\ \E f \in {<<>>, H2Block} : structure_html' = f
    /\ notice' = N_NONE
    /\ UNCHANGED <<pc, purevars, auxvars, warns, keyword, title, max_h2, assembled_html,
                   edited_html, use_edited, last_post>>

\* lines 581-600: the article button.  call_gemini returns some text full;
\* the run stops early without keyword or outline
GenerateArticle ==
    /\ pc = "app"
    /\ Strip(keyword) # <<>>
    /\ Strip(structure_html) # <<>>
    /\ \E text \in AppFragments : \E full \in simplify_html(text) :
          /\ assembled_html' = full
          /\ edited_html' = full
          /\ warns' = Issues(full)
    /\ notice' = N_NONE
    /\ UNCHANGED <<pc, purevars, auxvars, keyword, title, max_h2, structure_html,
                   use_edited, last_post>>

\* lines 611-617: the operator rewrites the body in the edit text area
EditBody ==
    /\ pc = "app"
    /\ \E f \in AppFragments : edited_html' = f
    /\ notice' = N_NONE
    /\ UNCHANGED <<pc, purevars, auxvars, warns, keyword, title, max_h2, structure_html,
                   assembled_html, use_edited, last_post>>

\* line 618: the operator ticks or unticks the checkbox
ToggleUseEdited ==
    /\ pc = "app"
    /\ use_edited' = ~use_edited
    /\ notice' = N_NONE
    /\ UNCHANGED <<pc, purevars, auxvars, warns, keyword, title, max_h2, structure_html,
                   assembled_html, edited_html, last_post>>

\* lines 693-694: the body the publish handler picks, stripped
ContentSource == Strip(IF use_edited THEN edited_html ELSE assembled_html)

\* the publish handler with a test of the validation result that the source
\* does not have: it stops when the preview listed issues
Publish_BlockedByIssues ==
    /\ pc = "app"
    /\ IF Strip(keyword) = <<>> THEN notice' = N_KEYWORD /\ UNCHANGED last_post
       ELSE IF Strip(title) = <<>> THEN notice' = N_TITLE /\ UNCHANGED last_post
       ELSE IF ContentSource = <<>> \/ warns # <<>>
            THEN notice' = N_BODY /\ UNCHANGED last_post
       ELSE /\ \E content_html \in simplify_html(ContentSource) :
                  last_post' = [sent |-> TRUE, title |-> Strip(title),
                                content |-> content_html, max_h2 |-> max_h2]
            /\ notice' = N_REQUEST
    /\ UNCHANGED <<pc, purevars, auxvars, warns, keyword, title, max_h2, structure_html,
                   assembled_html, edited_html, use_edited>>

\* lines 685-721: the publish button.  The run stops early (st.error and
\* st.stop) without keyword, title or body; otherwise the body is sanitized
\* once more and posted.  last_post keeps the title and content of the
\* payload and the value of max_h2 at the time of the click
Publish ==
    /\ pc = "app"
    /\ IF Strip(keyword) = <<>> THEN notice' = N_KEYWORD /\ UNCHANGED last_post
       ELSE IF Strip(title) = <<>> THEN notice' = N_TITLE /\ UNCHANGED last_post
       ELSE IF ContentSource = <<>> THEN notice' = N_BODY /\ UNCHANGED last_post
       ELSE /\ \E content_html \in simplify_html(ContentSource) :
                  last_post' = [sent |-> TRUE, title |-> Strip(title),
                                content |-> content_html, max_h2 |-> max_h2]
            /\ notice' = N_REQUEST
    /\ UNCHANGED <<pc, purevars, auxvars, warns, keyword, title, max_h2, structure_html,
                   assembled_html, edited_html, use_edited>>

Next ==
    \/ SetKeyword
    \/ SetTitle
    \/ SetMaxH2
    \/ EditStructure
    \/ GenerateArticle
    \/ EditBody
    \/ ToggleUseEdited
    \/ Publish

Spec == Init /\ [][Next]_vars

\* C10: the content of every create-post request has no tag outside the
\* allow-list and no more h2 sections than the configured maximum
C10_PostedContentSanitizedAndLimited ==
    last_post.sent =>
        /\ TokenNames(last_post.content) \subseteq ALLOWED_TAGS
        /\ count_h2(last_post.content) <= last_post.max_h2

\* lines 686-697: keyword, title and picked body pass the three tests of
\* the publish handler, which strip them and stop the run when one is empty
PublishPasses ==
    /\ Strip(keyword) # <<>>
    /\ Strip(title) # <<>>
    /\ ContentSource # <<>>

\* C11: validation is advisory.  A publish click with keyword, title and
\* body present sends the create-post request whatever the list of issues
\* is, and a click stopped by a missing input sends nothing; the issues shown
\* are always those of the stored article, which the preview and the publish
\* handler leave as it was
C11_ValidationNeverBlocksPublish ==
    /\ [](pc = "app" => warns = Issues(assembled_html))
    /\ [][notice' # N_NONE =>
              /\ IF PublishPasses
                 THEN notice' = N_REQUEST /\ last_post'.sent
                 ELSE last_post' = last_post
              /\ assembled_html' = assembled_html
              /\ warns' = warns]_vars

\* the request was sent by a click made while the list of issues of the
\* article was not empty
C11_Witness ==
    /\ notice = N_REQUEST
    /\ last_post.sent
    /\ warns # <<>>

----------------------------------------------------------------------------
(* SpecProbe: one call of wp_get or wp_post.  One action is one turn of    *)
(* the for loop: a request on the wire and what comes back for it.         *)

\* ensure_trailing_slash(url)
ensure_trailing_slash(url) ==
    IF url # <<>> /\ url[Len(url)] = "/" THEN url ELSE url \o <<"/">>

\* route.lstrip("/")
LStripSlash(route) ==
    LET NS(k) == route[k] # "/"
        k == FirstIdx(route, 1, NS)
    IN  IF k = 0 THEN <<>> ELSE SubSeq(route, k, Len(route))

REST_ROUTE_FORM == <<"?","r","e","s","t","_","r","o","u","t","e","=","/">>
WP_JSON_FORM == <<"w","p","-","j","s","o","n","/">>

\* the candidates in the reverse of the order of the source
api_candidates_JsonFirst(base, route) ==
    << ensure_trailing_slash(base) \o WP_JSON_FORM \o LStripSlash(route),
       ensure_trailing_slash(base) \o REST_ROUTE_FORM \o LStripSlash(route) >>

\* api_candidates(base, route)
api_candidates(base, route) ==
    << ensure_trailing_slash(base) \o REST_ROUTE_FORM \o LStripSlash(route),
       ensure_trailing_slash(base) \o WP_JSON_FORM \o LStripSlash(route) >>

\* line 66: r.status_code == 200; line 76: r.status_code in (200, 201)
SuccessCodes(fn) == IF fn = "wp_get" THEN {200} ELSE {200, 201}

\* requests.get for wp_get, requests.post for wp_post
MethodOf(fn) == IF fn = "wp_get" THEN "GET" ELSE "POST"

\* status codes a WordPress host answers with
StatusCodes == {200, 201, 403, 404}

\* base addresses without and with the trailing slash, routes without and
\* with a leading slash
ProbeBases == { <<"h">>, <<"h","/">> }
ProbeRoutes ==
    { <<"w","p","/","v","2","/","p","o","s","t","s">>,
      <<"/","w","p","/","v","2","/","u","s","e","r","s","/","m","e">> }

InitProbe ==
    /\ pc = "probe_idle"
    /\ PureFresh
    /\ AppFresh

\* wp_get(base, route, ...) or wp_post(base, route, ...) is called: last = None
CallProbe ==
    /\ pc = "probe_idle"
    /\ \E fn \in {"wp_get", "wp_post"} : \E base \in ProbeBases : \E route \in ProbeRoutes :
          call' = [fn |-> fn, base |-> base, route |-> route]
    /\ wire' = <<>>
    /\ loop_i' = 1
    /\ last' = None
    /\ ret' = NotReturned
    /\ pc' = "probe_loop"
    /\ UNCHANGED <<purevars, warns, keyword, title, max_h2, structure_html,
                   assembled_html, edited_html, use_edited, last_post, notice,
                   outlinevars, policyvars>>

\* one turn of the loop: r = requests.get/post(url, ...); last = r; return r
\* on a success status.  An exception of requests (timeout, no route to the
\* host) leaves the function: that exchange has no answer
ProbeRequest ==
    /\ pc = "probe_loop"
    /\ loop_i <= Len(api_candidates(call.base, call.route))
    /\ LET url == api_candidates(call.base, call.route)[loop_i]
       IN  \/ /\ wire' = Append(wire, [method |-> MethodOf(call.fn), url |-> url,
                                       answered |-> FALSE, status |-> 0])
              /\ pc' = "probe_raised"
              /\ UNCHANGED <<loop_i, last, ret>>
           \/ \E code \in StatusCodes :
                 LET r == [url |-> url, status_code |-> code]
                 IN  /\ wire' = Append(wire, [method |-> MethodOf(call.fn), url |-> url,
                                              answered |-> TRUE, status |-> code])
                     /\ last' = r
                     /\ IF code \in SuccessCodes(call.fn)
                        THEN ret' = r /\ pc' = "probe_returned" /\ UNCHANGED loop_i
                        ELSE loop_i' = loop_i + 1 /\ UNCHANGED <<ret, pc>>
    /\ UNCHANGED <<call, purevars, warns, keyword, title, max_h2, structure_html,
                   assembled_html, edited_html, use_edited, last_post, notice,
                   outlinevars, policyvars>>

\* lines 68 and 78: return last, after the loop ran out of candidates
ProbeReturnLast ==
    /\ pc = "probe_loop"
    /\ loop_i > Len(api_candidates(call.base, call.route))
    /\ ret' = last
    /\ pc' = "probe_returned"
    /\ UNCHANGED <<call, wire, loop_i, last, purevars, warns, keyword, title, max_h2,
                   structure_html, assembled_html, edited_html, use_edited, last_post,
                   notice, outlinevars, policyvars>>

NextProbe == CallProbe \/ ProbeRequest \/ ProbeReturnLast

SpecProbe == InitProbe /\ [][NextProbe]_vars

\* url has the literal form at some index
HasForm(url, form) == \E i \in 1..Len(url) : LitAtCS(url, i, form)

\* the success statuses the claim names for a method
ClaimedSuccess(method) == IF method = "GET" THEN {200} ELSE {200, 201}

\* C14: in a call of wp_get or wp_post the first request goes to the
\* ?rest_route= form and the second to the wp-json/ form, at most one request
\* per candidate; a request is only ever preceded by non-success responses;
\* and the returned value is a response, never None: the successful one, or
\* that of the second candidate when neither succeeded
C14_ProbeOrder ==
    pc \in {"probe_loop", "probe_raised", "probe_returned"} =>
        /\ Len(wire) <= 2
        /\ Len(wire) >= 1 =>
              HasForm(wire[1].url, REST_ROUTE_FORM) /\ ~HasForm(wire[1].url, WP_JSON_FORM)
        /\ Len(wire) = 2 =>
              HasForm(wire[2].url, WP_JSON_FORM) /\ ~HasForm(wire[2].url, REST_ROUTE_FORM)
        /\ \A k \in 1..Len(wire) :
              /\ wire[k].method = MethodOf(call.fn)
              /\ k < Len(wire) =>
                    /\ wire[k].answered
                    /\ wire[k].status \notin ClaimedSuccess(wire[k].method)
        /\ pc = "probe_loop" =>
              \A k \in 1..Len(wire) : wire[k].status \notin ClaimedSuccess(wire[k].method)
        /\ pc = "probe_returned" =>
              /\ ret # None
              /\ ret # NotReturned
              /\ wire # <<>>
              /\ wire[Len(wire)].answered
              /\ ret = [url |-> wire[Len(wire)].url,
                        status_code |-> wire[Len(wire)].status]
              /\ ret.status_code \in ClaimedSuccess(wire[Len(wire)].method) \/ Len(wire) = 2

\* a POST call whose first candidate answered 403 and whose second answered
\* 201, which it returned
C14_Witness ==
    /\ pc = "probe_returned"
    /\ call.fn = "wp_post"
    /\ Len(wire) = 2
    /\ wire[1].status = 403
    /\ ret.status_code = 201

----------------------------------------------------------------------------
(* SpecOutline: the outline button.  One action is one rerun of the        *)
(* script: a change of one input, or the run of the button handler.  The   *)
(* handler reads the keyword, the two numbers and the replies of the API,  *)
(* nothing an earlier run of it stored: the inputs are set before the      *)
(* first click, and the button is clicked until a run completes.           *)

MARK_1 == "U2460"
MARK_2 == "U2461"
MARK_3 == "U2462"

\* index of the "\n" that ends the line of a mark standing at i: the
\* mark[^\n]*\n head of the three patterns of lines 549-551; 0 when s[i] is
\* not the mark or its line has no end
MarkLineEnd(s, i, mark) ==
    IF s[i] # mark THEN 0
    ELSE LET NL(k) == s[k] = "\n" IN FirstIdx(s, i + 1, NL)

\* group 1 of re.search(mark[^\n]*\n(.+?)\n\n<next>, s, DOTALL), stripped;
\* "" when there is no match
SectionBetween(s, mark, next) ==
    LET stop == <<"\n", "\n", next>>
        StopAt(i) ==
            LET k == MarkLineEnd(s, i, mark)
                S(j) == LitAtCS(s, j, stop)
            IN  IF k = 0 THEN 0 ELSE FirstIdx(s, k + 2, S)
        P(i) == StopAt(i) # 0
        i == FirstIdx(s, 1, P)
    IN  IF i = 0 THEN <<>>
        ELSE Strip(SubSeq(s, MarkLineEnd(s, i, mark) + 1, StopAt(i) - 1))

\* group 1 of re.search(mark[^\n]*\n(.+)$, s, DOTALL), stripped; "" when
\* there is no match
SectionToEnd(s, mark) ==
    LET P(i) == MarkLineEnd(s, i, mark) # 0 /\ MarkLineEnd(s, i, mark) < Len(s)
        i == FirstIdx(s, 1, P)
    IN  IF i = 0 THEN <<>>
        ELSE Strip(SubSeq(s, MarkLineEnd(s, i, mark) + 1, Len(s)))

\* s.rstrip()
RStrip(s) ==
    LET NS(k) == ~IsSpace(s[k])
    IN  IF FirstIdx(s, 1, NS) = 0 THEN <<>>
        ELSE SubSeq(s, 1, CHOOSE b \in 1..Len(s) :
                              ~IsSpace(s[b]) /\ \A j \in (b + 1)..Len(s) : IsSpace(s[j]))

\* lines 559-560 and 570-571
TrimIfOver(s, max) == IF count_h2(s) > max THEN trim_h2_max(s, max) ELSE s

\* lines 555-560: the outline of the reply, sanitized and cut
FirstCut(outline_raw, max) ==
    {TrimIfOver(t, max) :
        t \in simplify_html(Replace(SectionToEnd(outline_raw, MARK_3), <<"\r">>, <<>>))}

\* the handler without the second cut of lines 570-571
Refill_NoRecut(s, add_raw, max) ==
    {IF count_h2(add) > 0 THEN RStrip(s) \o <<"\n", "\n">> \o Strip(add) ELSE s :
        add \in simplify_html(Strip(add_raw))}

\* lines 565-571: the reply to the fill request, sanitized, appended when
\* it has a heading, and the whole cut again
Refill(s, add_raw, max) ==
    {TrimIfOver(IF count_h2(add) > 0
                THEN RStrip(s) \o <<"\n", "\n">> \o Strip(add)
                ELSE s, max) :
        add \in simplify_html(Strip(add_raw))}

\* n headings one after the other
Blocks(n) == Flatten([i \in 1..n |-> H2Block])

\* a reply in the format the outline prompt asks for, up to the line of the
\* third mark
OutlineHead ==
    <<MARK_1, " ", "r", "\n", "-", "a", "\n", "\n",
      MARK_2, " ", "n", "\n", "-", "b", "\n", "\n",
      MARK_3, " ", "s", "\n">>

\* the replies have up to MaxOver headings more than the largest maximum
MaxOver == 1

\* replies of the generation API to the outline prompt: the asked format with
\* too few, enough and too many headings; a reply without the marks; one whose
\* last heading is not closed; one wrapped in a tag outside the allow-list
OutlineTexts ==
    {OutlineHead \o Blocks(n) :
        n \in {0, 1, MIN_H2, MAX_H2, MAX_H2_HIGH, MAX_H2_HIGH + MaxOver}}
    \cup { Blocks(2),
           OutlineHead \o Blocks(2) \o <<"<","h","2",">","t">>,
           OutlineHead \o <<"<","d","i","v",">","\r">> \o Blocks(4)
               \o <<"<","/","d","i","v",">"," ">> }

\* replies to the fill prompt: no text, text without a heading, one heading,
\* more headings than any request, and a reply that closes an open heading
FillTexts ==
    {Blocks(n) : n \in {0, 1, MAX_H2_HIGH + MaxOver}}
    \cup { <<"<","p",">","x","<","/","p",">">>,
           <<" ">> \o Blocks(2) \o <<"\n">>,
           <<"<","/","h","2",">">> \o Blocks(1) }

InitOutline ==
    /\ pc = "outline_idle"
    /\ PureFresh
    /\ AppFresh

\* the operator types the keyword
OutlineSetKeyword ==
    /\ pc = "outline_idle"
    /\ \E k \in AppTexts : keyword' = k
    /\ UNCHANGED <<pc, purevars, warns, title, max_h2, structure_html, assembled_html,
                   edited_html, use_edited, last_post, notice, probevars, outlinevars,
                   policyvars>>

\* max_h2 = st.number_input(..., min_value=3, max_value=12, value=MAX_H2)
OutlineSetMaxH2 ==
    /\ pc = "outline_idle"
    /\ \E n \in MAX_H2_LOW..MAX_H2_HIGH : max_h2' = n
    /\ UNCHANGED <<pc, purevars, warns, keyword, title, structure_html, assembled_html,
                   edited_html, use_edited, last_post, notice, probevars, outlinevars,
                   policyvars>>

\* min_h2 = st.number_input(..., min_value=1, max_value=12, value=3); a
\* minimum above the maximum only shows a warning (lines 539-540)
OutlineSetMinH2 ==
    /\ pc = "outline_idle"
    /\ \E n \in MIN_H2_LOW..MIN_H2_HIGH : min_h2' = n
    /\ UNCHANGED <<pc, purevars, warns, keyword, title, max_h2, structure_html,
                   assembled_html, edited_html, use_edited, last_post, notice,
                   probevars, readers, needs, policyvars>>

\* lines 543-573: the outline button.  The run stops early without keyword.
\* call_gemini returns some text or raises (no key, a status other than 200),
\* which ends the run where it is: before anything is stored for the outline
\* request, after readers and needs are stored for the fill request
GenerateOutline ==
    /\ pc \in {"outline_idle", "outline_failed"}
    /\ Strip(keyword) # <<>>
    /\ \/ /\ pc' = "outline_failed"
          /\ UNCHANGED <<readers, needs, structure_html>>
       \/ \E outline_raw \in OutlineTexts :
             /\ readers' = SectionBetween(outline_raw, MARK_1, MARK_2)
             /\ needs' = SectionBetween(outline_raw, MARK_2, MARK_3)
             /\ \E cut \in FirstCut(outline_raw, max_h2) :
                   IF count_h2(cut) < min_h2
                   THEN \/ /\ pc' = "outline_failed"
                           /\ UNCHANGED structure_html
                        \/ \E add_raw \in FillTexts :
                              \E filled \in Refill(cut, add_raw, max_h2) :
                                 /\ structure_html' = filled
                                 /\ pc' = "outline_done"
                   ELSE /\ structure_html' = TrimIfOver(cut, max_h2)
                        /\ pc' = "outline_done"
    /\ UNCHANGED <<purevars, warns, keyword, title, max_h2, assembled_html,
                   edited_html, use_edited, last_post, notice, probevars, min_h2,
                   policyvars>>

NextOutline == OutlineSetKeyword \/ OutlineSetMaxH2 \/ OutlineSetMinH2 \/ GenerateOutline

SpecOutline == InitOutline /\ [][NextOutline]_vars

\* C12: when the outline handler has completed, the stored outline has at
\* most max_h2 h2 headings
C12_OutlineAtMostMax ==
    pc = "outline_done" => count_h2(structure_html) <= max_h2

\* the handler completed with the fill reply appended and the whole cut back
\* to the maximum: the stored outline has max_h2 headings on both sides of
\* the joint
C12_Witness ==
    /\ pc = "outline_done"
    /\ count_h2(structure_html) = max_h2
    /\ \E i \in 1..Len(structure_html) :
          /\ LitAtCS(structure_html, i, <<">", "\n", "\n", "<">>)
          /\ count_h2(SubSeq(structure_html, 1, i)) >= 1
          /\ count_h2(SubSeq(structure_html, i + 3, Len(structure_html))) >= 1

\* C13: when the outline handler has completed, the stored outline has at
\* least min_h2 h2 headings
C13_OutlineAtLeastMin ==
    pc = "outline_done" => count_h2(structure_html) >= min_h2

----------------------------------------------------------------------------
(* SpecPolicy: the policy presets.  One action is one run of the script in *)
(* one session, from the session initialisation down to the buttons, with  *)
(* the widget the operator touched.  The sessions share the cache file.    *)

\* d[k] = v
Put(d, k, v) == [x \in DOMAIN d \cup {k} |-> IF x = k THEN v ELSE d[x]]

\* del d[k]
Del(d, k) == [x \in DOMAIN d \ {k} |-> d[x]]

\* the preset names of the model, in the order sorted() gives them
NameOrder == <<"a", DEFAULT_PRESET_NAME>>
PresetNames == {NameOrder[k] : k \in 1..Len(NameOrder)}

\* sorted(names)[0]
SortedFirst(names) ==
    NameOrder[CHOOSE k \in 1..Len(NameOrder) :
                  NameOrder[k] \in names /\ \A j \in 1..(k - 1) : NameOrder[j] \notin names]

\* what happens to a write of the cache file: json.dump completes; open()
\* raises, which leaves the file as it was; json.dump raises after open()
\* has truncated the file.  The exception is caught (lines 396-397)
SaveOutcomes == {"written", "open failed", "dump failed"}

\* save_policies_to_cache(store, active_name): the file afterwards
save_policies_to_cache(file, store, active_name, outcome) ==
    CASE outcome = "written" ->
             [kind |-> "json",
              data |-> [policy_store |-> store, active_policy |-> active_name]]
      [] outcome = "open failed" -> file
      [] outcome = "dump failed" -> [kind |-> "truncated"]

\* load_policies_from_cache(): the parsed file; None when the file does not
\* exist, or when reading or parsing it raises (lines 388-390), as it does
\* for a truncated file
load_policies_from_cache(file, readable) ==
    IF file.kind = "json" /\ readable THEN file.data ELSE None

\* lines 416-420: the session state of session s with the two keys set
SessionInit(s) ==
    [policy_store |-> IF s \in started THEN policy_store[s]
                      ELSE Put(EmptyDict, DEFAULT_PRESET_NAME, DEFAULT_POLICY_TXT),
     active_policy |-> IF s \in started THEN active_policy[s] ELSE DEFAULT_PRESET_NAME,
     policy_text |-> policy_text[s],
     cache |-> cache,
     keyerror |-> FALSE]

\* lines 424-430: the cached store replaces the store of the session when it
\* is a non-empty dict; the cached name becomes active when the store has it
CacheLoad(r, cached) ==
    IF cached = None THEN r
    ELSE LET store == IF DOMAIN cached.policy_store # {}
                      THEN cached.policy_store ELSE r.policy_store
         IN  [r EXCEPT !.policy_store = store,
                       !.active_policy = IF cached.active_policy \in DOMAIN store
                                         THEN cached.active_policy ELSE @]

\* lines 433-436: the active name is only looked at when 'default' was missing
DefaultCompletion(r) ==
    IF DEFAULT_PRESET_NAME \notin DOMAIN r.policy_store
    THEN LET store == Put(r.policy_store, DEFAULT_PRESET_NAME, DEFAULT_POLICY_TXT)
         IN  [r EXCEPT !.policy_store = store,
                       !.active_policy = IF @ \notin DOMAIN store
                                         THEN DEFAULT_PRESET_NAME ELSE @]
    ELSE r

\* lines 439-440: cur_txt = policy_store[active_policy] raises KeyError for a
\* name the store does not have, which ends the run; setdefault fills
\* policy_text in the first run of the session only
CurrentText(r, s) ==
    IF r.active_policy \notin DOMAIN r.policy_store THEN [r EXCEPT !.keyerror = TRUE]
    ELSE IF s \in started THEN r
    ELSE [r EXCEPT !.policy_text = r.policy_store[r.active_policy]]

\* lines 465-475: every file the uploader holds is stored under its name and
\* made active, in every run; then the cache is written
UploadStage(r, files, outcome) ==
    LET RECURSIVE Go(_, _)
        Go(k, t) ==
            IF k > Len(files) THEN t
            ELSE Go(k + 1, [t EXCEPT !.policy_store = Put(@, files[k].name, files[k].raw),
                                     !.active_policy = files[k].name,
                                     !.policy_text = files[k].raw])
        done == Go(1, r)
    IN  IF files = <<>> THEN r
        ELSE [done EXCEPT !.cache = save_policies_to_cache(
                              @, done.policy_store, done.active_policy, outcome)]

NO_PICK == "(no pick)"

\* lines 478-484: the select box shows the active name (the first name when
\* the active one is not listed) unless the operator picked one of the names
SelectStage(r, pick, outcome) ==
    LET names == DOMAIN r.policy_store
        shown == IF r.active_policy \in names THEN r.active_policy ELSE SortedFirst(names)
        sel_name == IF pick \in names THEN pick ELSE shown
    IN  IF sel_name # r.active_policy
        THEN [r EXCEPT !.active_policy = sel_name,
                       !.policy_text = r.policy_store[sel_name],
                       !.cache = save_policies_to_cache(
                                     @, r.policy_store, sel_name, outcome)]
        ELSE r

NO_TYPING == "(no typing)"

\* lines 488-492: the text area returns what the operator typed into it
TextStage(r, typed) ==
    IF typed = NO_TYPING THEN r ELSE [r EXCEPT !.policy_text = typed]

\* lines 496-499
OverwriteButton(r, outcome) ==
    LET store == Put(r.policy_store, r.active_policy, r.policy_text)
    IN  [r EXCEPT !.policy_store = store,
                  !.cache = save_policies_to_cache(@, store, r.active_policy, outcome)]

\* the delete handler without lines 516-521: the deleted name stays active
DeleteButton_KeepActive(r, outcome) ==
    LET can_delete ==
            /\ r.active_policy # DEFAULT_PRESET_NAME
            /\ Cardinality(DOMAIN r.policy_store) > 1
            /\ r.active_policy \in DOMAIN r.policy_store
        store == Del(r.policy_store, r.active_policy)
    IN  IF ~can_delete THEN r
        ELSE [r EXCEPT !.policy_store = store,
                       !.cache = save_policies_to_cache(
                                     @, store, r.active_policy, outcome)]

\* lines 509-523: the button exists only when can_delete holds
DeleteButton(r, outcome) ==
    LET can_delete ==
            /\ r.active_policy # DEFAULT_PRESET_NAME
            /\ Cardinality(DOMAIN r.policy_store) > 1
            /\ r.active_policy \in DOMAIN r.policy_store
        deleted == Del(r.policy_store, r.active_policy)
        store == IF DEFAULT_PRESET_NAME \in DOMAIN deleted THEN deleted
                 ELSE Put(deleted, DEFAULT_PRESET_NAME, DEFAULT_POLICY_TXT)
    IN  IF ~can_delete THEN r
        ELSE [r EXCEPT !.policy_store = store,
                       !.active_policy = DEFAULT_PRESET_NAME,
                       !.policy_text = store[DEFAULT_PRESET_NAME],
                       !.cache = save_policies_to_cache(
                                     @, store, DEFAULT_PRESET_NAME, outcome)]

\* lines 525-530
ResetButton(r, outcome) ==
    LET store == Put(EmptyDict, DEFAULT_PRESET_NAME, DEFAULT_POLICY_TXT)
    IN  [r EXCEPT !.policy_store = store,
                  !.active_policy = DEFAULT_PRESET_NAME,
                  !.policy_text = DEFAULT_POLICY_TXT,
                  !.cache = save_policies_to_cache(
                                @, store, DEFAULT_PRESET_NAME, outcome)]

\* lines 494-530: the button clicked in this run, if any
ButtonStage(r, button, outcome) ==
    CASE button = "overwrite" -> OverwriteButton(r, outcome)
      [] button = "delete" -> DeleteButton(r, outcome)
      [] button = "reset" -> ResetButton(r, outcome)
      [] OTHER -> r

\* lines 416-530 for session s: files are the files of the uploader, pick,
\* typed and button what the operator did, readable whether the cache file
\* could be read, up_outcome and outcome what happened to the write of the
\* upload block and to the write of the select box or button
ScriptRun(s, files, pick, typed, button, readable, up_outcome, outcome) ==
    LET loaded == CurrentText(
                      DefaultCompletion(
                          CacheLoad(SessionInit(s),
                                    load_policies_from_cache(cache, readable))), s)
    IN  IF loaded.keyerror THEN loaded
        ELSE ButtonStage(
                 TextStage(
                     SelectStage(UploadStage(loaded, files, up_outcome), pick, outcome),
                     typed),
                 button, outcome)

\* the run r of session s ends: its session state and the file are kept
EndRun(s, r) ==
    /\ started' = started \cup {s}
    /\ policy_store' = [policy_store EXCEPT ![s] = r.policy_store]
    /\ active_policy' = [active_policy EXCEPT ![s] = r.active_policy]
    /\ policy_text' = [policy_text EXCEPT ![s] = r.policy_text]
    /\ cache' = r.cache
    /\ pc' = IF r.keyerror THEN "policy_keyerror" ELSE "policy"
    /\ UNCHANGED <<purevars, warns, keyword, title, max_h2, structure_html,
                   assembled_html, edited_html, use_edited, last_post, notice,
                   probevars, outlinevars>>

\* contents of the text area and of the uploaded files
PolicyTexts == {"x"}

\* the uploader holds up to MaxFiles files
MaxFiles == 1
UploadChoices ==
    SeqsUpTo({[name |-> n, raw |-> "x"] : n \in PresetNames}, MaxFiles)

InitPolicy ==
    /\ pc = "policy"
    /\ PureFresh
    /\ AppFresh

\* a run caused by a widget outside the policy block
PlainRerun ==
    /\ pc = "policy"
    /\ \E s \in Sessions : \E readable \in BOOLEAN : \E o \in SaveOutcomes :
          /\ EndRun(s, ScriptRun(s, pol_files[s], NO_PICK, NO_TYPING, "none",
                                 readable, o, o))
          /\ UNCHANGED pol_files

\* the operator changes the files of the uploader
UploadFiles ==
    /\ pc = "policy"
    /\ \E s \in Sessions : \E files \in UploadChoices :
       \E readable \in BOOLEAN : \E o \in SaveOutcomes :
          /\ EndRun(s, ScriptRun(s, files, NO_PICK, NO_TYPING, "none", readable, o, o))
          /\ pol_files' = [pol_files EXCEPT ![s] = files]

\* the operator picks a name in the select box
SelectPreset ==
    /\ pc = "policy"
    /\ \E s \in started : \E pick \in DOMAIN policy_store[s] :
       \E readable \in BOOLEAN : \E o \in SaveOutcomes :
          /\ EndRun(s, ScriptRun(s, pol_files[s], pick, NO_TYPING, "none",
                                 readable, o, o))
          /\ UNCHANGED pol_files

\* the operator types into the text area
EditPolicyText ==
    /\ pc = "policy"
    /\ \E s \in started : \E typed \in PolicyTexts :
       \E readable \in BOOLEAN : \E o \in SaveOutcomes :
          /\ EndRun(s, ScriptRun(s, pol_files[s], NO_PICK, typed, "none",
                                 readable, o, o))
          /\ UNCHANGED pol_files

\* the operator clicks one of the three buttons
ClickButton ==
    /\ pc = "policy"
    /\ \E s \in started : \E button \in {"overwrite", "delete", "reset"} :
       \E readable \in BOOLEAN : \E o \in SaveOutcomes :
          /\ EndRun(s, ScriptRun(s, pol_files[s], NO_PICK, NO_TYPING, button,
                                 readable, o, o))
          /\ UNCHANGED pol_files

\* the operator reloads the page: the session starts over with an empty
\* session state and an empty uploader
ReloadPage ==
    /\ pc = "policy"
    /\ \E s \in started :
          /\ started' = started \ {s}
          /\ policy_store' = [policy_store EXCEPT ![s] = EmptyDict]
          /\ active_policy' = [active_policy EXCEPT ![s] = ""]
          /\ policy_text' = [policy_text EXCEPT ![s] = ""]
          /\ pol_files' = [pol_files EXCEPT ![s] = <<>>]
    /\ UNCHANGED <<pc, cache, purevars, warns, keyword, title, max_h2, structure_html,
                   assembled_html, edited_html, use_edited, last_post, notice,
                   probevars, outlinevars>>

NextPolicy ==
    \/ PlainRerun
    \/ UploadFiles
    \/ SelectPreset
    \/ EditPolicyText
    \/ ClickButton
    \/ ReloadPage

SpecPolicy == InitPolicy /\ [][NextPolicy]_vars

\* C15: in every session that has run the script, 'default' and the active
\* name are keys of policy_store, and no run ends in the KeyError of the
\* lookup policy_store[active_policy]
C15_PolicyStoreInvariant ==
    /\ pc # "policy_keyerror"
    /\ \A s \in started :
          /\ DEFAULT_PRESET_NAME \in DOMAIN policy_store[s]
          /\ active_policy[s] \in DOMAIN policy_store[s]

\* two sessions have run the script; one is at 'default' and does not list
\* the name that is still active in the other, and the file, written by the
\* first, does not list it either
C15_Witness ==
    /\ cache.kind = "json"
    /\ \E s \in started : \E t \in started :
          /\ active_policy[s] = DEFAULT_PRESET_NAME
          /\ active_policy[t] # DEFAULT_PRESET_NAME
          /\ active_policy[t] \notin DOMAIN cache.data.policy_store
          /\ active_policy[t] \notin DOMAIN policy_store[s]

====
